---------------------------- MODULE Spec2Model ----------------------------
(***************************************************************************)
(* Model of dmp-core's music player (src/src/music_player.rs): the Player  *)
(* facade, the playback monitor thread, the GStreamer bus watch, and the   *)
(* playbin element they share behind an RwLock.                            *)
(*                                                                         *)
(* Times are chrono Durations / gst ClockTimes in nanoseconds.             *)
(* Option<T> is a set: None is {} and Some(x) is {x}.                      *)
(***************************************************************************)
EXTENDS Integers, Sequences, FiniteSets, TLC

\* ------------------------------------------------------------------ bounds
MaxTicks == 4          \* length of the longest resource, in ticks
MaxInputs == 2         \* facade calls (stop aside) plus bus messages in one run
MaxPhaseQueue == 3     \* pending PlaybackStats the model lets the channel hold
MaxEvents == 2         \* pending PlayerCmds the model lets the channel hold
MaxBusMsgs == 1        \* bus messages the engine posts in one run

\* ------------------------------------------------------- program constants
NsPerUs == 1000        \* num_microseconds / from_useconds
NsPerMs == 1000000     \* Duration::milliseconds
FinishMs == 250        \* end - Duration::milliseconds(250)

\* The grid the engine's clock moves on (125 ms), and an offset below 1 us.
Tick == 125 * NsPerMs
SubUs == NsPerUs \div 2

\* ------------------------------------------------------------------ Option
None == {}
Some(x) == {x}
Unwrap(o) == CHOOSE x \in o : TRUE

Min(a, b) == IF a <= b THEN a ELSE b
Max(a, b) == IF a >= b THEN a ELSE b

\* ------------------------------------------------------------------ inputs
\* Resources and the raw duration the engine reports for each.
Resources == {"a", "b"}
Dur(u) == IF u = "a" THEN (MaxTicks - 1) * Tick ELSE MaxTicks * Tick + SubUs

\* URI::Cue { start, end, .. } and the other URI variants.
Cue(u, s, e) == [kind |-> "Cue", res |-> u, start |-> s, end |-> e]
Plain(u) == [kind |-> "Plain", res |-> u, start |-> 0, end |-> 0]
Locators ==
    { Plain("a"),
      Cue("b", Tick + SubUs, MaxTicks * Tick),
      Cue("b", 3 * Tick, Tick) }

SeekTargets == { 0 - Tick, 2 * Tick, MaxTicks * Tick }
SeekAmounts == { Tick }
Volumes == { 5 }                    \* tenths: 0.5

\* Positions the engine's clock can reach while playing.
Grid ==
    { k * Tick : k \in 0..MaxTicks }
        \cup { Dur(u) : u \in Resources }
        \cup { l.start : l \in Locators } \cup { l.end : l \in Locators }

\* -------------------------------------------------------------- PlaybackStats
Idle == [tag |-> "Idle", start |-> 0, end |-> 0]
Switching == [tag |-> "Switching", start |-> 0, end |-> 0]
Playing(s, e) == [tag |-> "Playing", start |-> s, end |-> e]
Finished == [tag |-> "Finished", start |-> 0, end |-> 0]

VARIABLES
    \* the playbin element (gst::Element)
    pstate,        \* state set by set_state: "Null" | "Ready" | "Paused" | "Playing"
    ppos,          \* query_position: Option<ns>
    puri,          \* property "uri" ("" when unset)
    pcur,          \* property "current-uri" ("" when unset)
    pload,         \* the engine has a resource to (re)load before it can play
    pvol,          \* property "volume", in tenths
    busq,          \* messages on the GStreamer bus not yet dispatched
    \* Arc<RwLock<Element>>
    rlock,         \* actors holding a read guard
    wlock,         \* actors holding a write guard
    \* Arc<RwLock<Option<Duration>>>
    position,
    \* channels
    stat_ch,       \* stat_tx -> stat_rx (PlaybackStats)
    playback_ch,   \* playback_tx -> message_rx (PlayerCmd)
    \* playback monitor thread
    stats, pos_temp, mpc,
    \* bus watch
    bpc,
    \* Player
    source, start, end, volume,
    fpc,           \* where the caller's thread is inside Player
    floc,          \* set_source: the locator
    furi,          \* set_source: the captured "current-uri"
    ftarget,       \* seek_to: target_pos
    fctx,          \* seek_to: called by "api" or by set_source's "cue" loop
    fstate,        \* set_state: the requested state
    \* history
    calls,         \* facade calls made, stop() aside
    posted,        \* bus messages posted
    seeked,        \* seek_to: the position handed to seek_simple
    eosSince,      \* Eos sent since the monitor last adopted a phase
    atfSince,      \* AboutToFinish sent since the monitor last adopted a phase
    afterStop      \* stop() returned Ok and set_source was not called since

engineVars == <<pstate, ppos, puri, pcur, pload, pvol, busq>>
lockVars == <<rlock, wlock>>
chanVars == <<stat_ch, playback_ch>>
monVars == <<stats, pos_temp, mpc, eosSince, atfSince>>
busVars == <<bpc>>
playerVars == <<source, start, end, volume, fpc, floc, furi, ftarget, fctx, fstate,
                calls, seeked, afterStop>>
vars == <<engineVars, lockVars, position, chanVars, monVars, busVars, playerVars, posted>>

NoLoc == Plain("")

Init ==
    /\ pstate = "Null" /\ ppos = None /\ puri = "" /\ pcur = "" /\ pload = FALSE
    /\ pvol = 10 /\ busq = <<>>
    /\ rlock = {} /\ wlock = {}
    /\ position = None
    /\ stat_ch = <<>> /\ playback_ch = <<>>
    /\ stats = Idle /\ pos_temp = None /\ mpc = "recv"
    /\ bpc = "idle"
    /\ source = None /\ start = None /\ end = None /\ volume = 10
    /\ fpc = "idle" /\ floc = NoLoc /\ furi = "" /\ ftarget = 0 /\ fctx = "api"
    /\ fstate = "Null"
    /\ calls = 0 /\ posted = 0 /\ seeked = None
    /\ eosSince = 0 /\ atfSince = 0 /\ afterStop = FALSE

\* ------------------------------------------------------- RwLock<Element>
\* std::sync::RwLock: a reader waits for the writer, a writer for everybody.
CanRead == wlock = {}
\* (mutant: a writer that does not wait for the readers)
CanWriteNoReaders == wlock = {}
CanWrite == wlock = {} /\ rlock = {}

AcquireRead(a) == a \notin rlock /\ CanRead /\ rlock' = rlock \cup {a} /\ wlock' = wlock
AcquireWrite(a) == a \notin wlock /\ CanWrite /\ wlock' = wlock \cup {a} /\ rlock' = rlock
\* The guard is a temporary: it is dropped at the end of the statement.
Release(a) == rlock' = rlock \ {a} /\ wlock' = wlock \ {a}

\* ------------------------------------------------------- the playbin element
Down == {"Null", "Ready"}
\* A playbin without a uri cannot be brought to Paused or Playing.
SetStateOk(s) == s \in Down \/ puri # ""
\* Element::set_state: going down to Ready or Null drops the stream, so the
\* position is gone and the resource has to be loaded again on the way up.
SetState(s) ==
    /\ pstate' = s
    /\ ppos' = IF s \in Down THEN None ELSE ppos
    /\ pload' = IF s \in Down THEN puri # "" ELSE pload
    /\ UNCHANGED <<puri, pcur, pvol, busq>>
SetUri(u) ==
    /\ puri' = u /\ pload' = TRUE
    /\ UNCHANGED <<pstate, ppos, pcur, pvol, busq>>
SetVolumeProp(v) ==
    /\ pvol' = v
    /\ UNCHANGED <<pstate, ppos, puri, pcur, pload, busq>>
\* seek_simple succeeds on a prerolled stream only.
SeekOk == ppos # None
SeekSimple(p) ==
    /\ ppos' = Some(Min(p, Dur(pcur)))
    /\ UNCHANGED <<pstate, puri, pcur, pload, pvol, busq>>
\* query_duration
RawDuration == IF ppos = None THEN None ELSE Some(Dur(pcur))

\* The engine's own threads.
EngineLoad ==
    /\ pload /\ pstate \in {"Paused", "Playing"}
    /\ pcur' = puri /\ ppos' = Some(0) /\ pload' = FALSE
    /\ UNCHANGED <<pstate, puri, pvol, busq>>
    /\ UNCHANGED <<lockVars, position, chanVars, monVars, busVars, playerVars, posted>>

NextGrid(p) == { g \in Grid : g > p /\ \A h \in Grid : h > p => g <= h }
EngineAdvance ==
    /\ pstate = "Playing" /\ ppos # None
    /\ \E g \in NextGrid(Unwrap(ppos)) :
          /\ g <= Dur(pcur)
          /\ ppos' = Some(g)
    /\ UNCHANGED <<pstate, puri, pcur, pload, pvol, busq>>
    /\ UNCHANGED <<lockVars, position, chanVars, monVars, busVars, playerVars, posted>>

BusMessages == {"Error", "StreamStart", "Eos"}
EnginePost(m) ==
    /\ posted < MaxBusMsgs /\ calls + posted < MaxInputs
    /\ CASE m = "Error" -> pstate \in {"Paused", "Playing"}
         [] m = "StreamStart" -> ppos # None
         [] m = "Eos" -> ppos = Some(Dur(pcur))
    /\ busq' = Append(busq, m) /\ posted' = posted + 1
    /\ UNCHANGED <<pstate, ppos, puri, pcur, pload, pvol>>
    /\ UNCHANGED <<lockVars, position, chanVars, monVars, busVars, playerVars>>

\* ------------------------------------------------- playback monitor thread
\* (mutant: a channel whose newest value overwrites the pending ones)
MonRecvLatest ==
    /\ mpc = "recv"
    /\ IF stat_ch # <<>>
         THEN /\ stats' = stat_ch[Len(stat_ch)] /\ stat_ch' = <<>>
              /\ eosSince' = 0 /\ atfSince' = 0
         ELSE UNCHANGED <<stats, stat_ch, eosSince, atfSince>>
    /\ mpc' = "query"
    /\ UNCHANGED <<pos_temp, playback_ch>>
    /\ UNCHANGED <<engineVars, lockVars, position, busVars, playerVars, posted>>

MonRecv ==
    /\ mpc = "recv"
    /\ IF stat_ch # <<>>
         THEN /\ stats' = Head(stat_ch) /\ stat_ch' = Tail(stat_ch)
              /\ eosSince' = 0 /\ atfSince' = 0
         ELSE UNCHANGED <<stats, stat_ch, eosSince, atfSince>>
    /\ mpc' = "query"
    /\ UNCHANGED <<pos_temp, playback_ch>>
    /\ UNCHANGED <<engineVars, lockVars, position, busVars, playerVars, posted>>

MonAcquire ==
    /\ \/ mpc = "query" /\ Len(playback_ch) < MaxEvents /\ AcquireRead("monitor")
       \/ mpc = "set_ready" /\ AcquireWrite("monitor")
    /\ UNCHANGED <<engineVars, position, chanVars, monVars, busVars, playerVars, posted>>

FinishPoint(e) == e - FinishMs * NsPerMs
Rebase(p, s) == p - s
Bump(n) == IF n < 2 THEN n + 1 ELSE n

\* (mutant: the boundaries compared against the rebased position)
MonQueryRebased ==
    /\ mpc = "query" /\ "monitor" \in rlock
    /\ Release("monitor")
    /\ IF stats.tag = "Playing" /\ ppos # None
         THEN LET p == Rebase(Unwrap(ppos), stats.start) IN
              IF p >= stats.end
                THEN /\ playback_ch' = Append(playback_ch, "Eos")
                     /\ eosSince' = Bump(eosSince) /\ atfSince' = atfSince
                     /\ pos_temp' = ppos /\ mpc' = "set_ready"
                ELSE IF p >= FinishPoint(stats.end)
                THEN /\ playback_ch' = Append(playback_ch, "AboutToFinish")
                     /\ atfSince' = Bump(atfSince) /\ eosSince' = eosSince
                     /\ pos_temp' = Some(p) /\ mpc' = "write"
                ELSE /\ pos_temp' = Some(p) /\ mpc' = "write"
                     /\ UNCHANGED <<playback_ch, eosSince, atfSince>>
         ELSE /\ pos_temp' = ppos
              /\ mpc' = IF stats.tag = "Finished" THEN "finish" ELSE "write"
              /\ UNCHANGED <<playback_ch, eosSince, atfSince>>
    /\ UNCHANGED <<stats, stat_ch>>
    /\ UNCHANGED <<engineVars, position, busVars, playerVars, posted>>

MonQuery ==
    /\ mpc = "query" /\ "monitor" \in rlock
    /\ Release("monitor")
    /\ IF stats.tag = "Playing" /\ ppos # None
         THEN LET p == Unwrap(ppos) IN
              IF p >= stats.end
                THEN /\ playback_ch' = Append(playback_ch, "Eos")
                     /\ eosSince' = Bump(eosSince) /\ atfSince' = atfSince
                     /\ pos_temp' = ppos /\ mpc' = "set_ready"
                ELSE IF p >= FinishPoint(stats.end)
                THEN /\ playback_ch' = Append(playback_ch, "AboutToFinish")
                     /\ atfSince' = Bump(atfSince) /\ eosSince' = eosSince
                     /\ pos_temp' = Some(Rebase(p, stats.start)) /\ mpc' = "write"
                ELSE /\ pos_temp' = Some(Rebase(p, stats.start)) /\ mpc' = "write"
                     /\ UNCHANGED <<playback_ch, eosSince, atfSince>>
         ELSE /\ pos_temp' = ppos
              /\ mpc' = IF stats.tag = "Finished" THEN "finish" ELSE "write"
              /\ UNCHANGED <<playback_ch, eosSince, atfSince>>
    /\ UNCHANGED <<stats, stat_ch>>
    /\ UNCHANGED <<engineVars, position, busVars, playerVars, posted>>

\* (mutant: the monitor pauses the pipeline at the end of the track)
MonSetReadyPaused ==
    /\ mpc = "set_ready" /\ "monitor" \in wlock
    /\ SetState("Paused") /\ Release("monitor")
    /\ pos_temp' = Some(Rebase(Unwrap(pos_temp), stats.start))
    /\ mpc' = "write"
    /\ UNCHANGED <<stats, eosSince, atfSince>>
    /\ UNCHANGED <<position, chanVars, busVars, playerVars, posted>>

MonSetReady ==
    /\ mpc = "set_ready" /\ "monitor" \in wlock
    /\ SetState("Ready") /\ Release("monitor")
    /\ pos_temp' = Some(Rebase(Unwrap(pos_temp), stats.start))
    /\ mpc' = "write"
    /\ UNCHANGED <<stats, eosSince, atfSince>>
    /\ UNCHANGED <<position, chanVars, busVars, playerVars, posted>>

MonWrite ==
    /\ mpc = "write"
    /\ position' = pos_temp
    /\ mpc' = "recv"
    /\ UNCHANGED <<stats, pos_temp, eosSince, atfSince>>
    /\ UNCHANGED <<engineVars, lockVars, chanVars, busVars, playerVars, posted>>

\* (mutant: the loop exits without clearing the position cell)
MonFinishKeepPosition ==
    /\ mpc = "finish"
    /\ mpc' = "done"
    /\ UNCHANGED <<stats, pos_temp, eosSince, atfSince>>
    /\ UNCHANGED <<engineVars, lockVars, position, chanVars, busVars, playerVars, posted>>

MonFinish ==
    /\ mpc = "finish"
    /\ position' = None
    /\ mpc' = "done"
    /\ UNCHANGED <<stats, pos_temp, eosSince, atfSince>>
    /\ UNCHANGED <<engineVars, lockVars, chanVars, busVars, playerVars, posted>>

\* ------------------------------------------------------------ bus watch
BusDispatch ==
    /\ bpc = "idle" /\ busq # <<>>
    /\ busq' = Tail(busq)
    /\ bpc' = IF Head(busq) = "Error" THEN "err_ready" ELSE "idle"
    /\ UNCHANGED <<pstate, ppos, puri, pcur, pload, pvol>>
    /\ UNCHANGED <<lockVars, position, chanVars, monVars, playerVars, posted>>

BusAcquire ==
    /\ bpc \in {"err_ready", "err_play"}
    /\ AcquireWrite("bus")
    /\ UNCHANGED <<engineVars, position, chanVars, monVars, busVars, playerVars, posted>>

BusSetReady ==
    /\ bpc = "err_ready" /\ "bus" \in wlock
    /\ SetState("Ready") /\ Release("bus")
    /\ bpc' = "err_play"
    /\ UNCHANGED <<position, chanVars, monVars, playerVars, posted>>

\* (mutant: a recovery that leaves the pipeline paused)
BusSetPaused ==
    /\ bpc = "err_play" /\ "bus" \in wlock
    /\ Release("bus")
    /\ IF SetStateOk("Paused")
         THEN SetState("Paused") /\ bpc' = "idle"
         ELSE UNCHANGED engineVars /\ bpc' = "dead"
    /\ UNCHANGED <<position, chanVars, monVars, playerVars, posted>>

BusSetPlaying ==
    /\ bpc = "err_play" /\ "bus" \in wlock
    /\ Release("bus")
    /\ IF SetStateOk("Playing")
         THEN SetState("Playing") /\ bpc' = "idle"
         ELSE UNCHANGED engineVars /\ bpc' = "dead"
    /\ UNCHANGED <<position, chanVars, monVars, playerVars, posted>>

\* The caller drains message_rx.
CallerRecv ==
    /\ playback_ch # <<>>
    /\ playback_ch' = Tail(playback_ch)
    /\ UNCHANGED <<stat_ch>>
    /\ UNCHANGED <<engineVars, lockVars, position, monVars, busVars, playerVars, posted>>

\* ------------------------------------------------------------------ Player
locals == <<floc, furi, ftarget, fctx, fstate, seeked>>
fields == <<source, start, end, volume>>
Goto(pc) == fpc' = pc /\ UNCHANGED locals
ToIdle ==
    /\ fpc' = "idle" /\ floc' = NoLoc /\ furi' = "" /\ ftarget' = 0
    /\ fctx' = "api" /\ fstate' = "Null" /\ seeked' = None
\* A panic unwinds the caller's thread, which drops the Player.
Panic ==
    /\ fpc' = "panic_drop" /\ floc' = NoLoc /\ furi' = "" /\ ftarget' = 0
    /\ fctx' = "api" /\ fstate' = "Null" /\ seeked' = None

FReadPcs == {"ss_uri", "pl_wait", "pl_dur"}
FWritePcs == {"cue_seturi", "cue_play", "pl_seturi", "pl_play", "st_set",
              "stop_pause", "stop_ready", "vol_set", "seek_mute", "seek_do",
              "seek_unmute", "drop_null", "panic_drop"}

\* playbin() / playbin_mut(): self.playbin.read() / self.playbin.write()
FacadeAcquire ==
    /\ \/ fpc \in FReadPcs /\ AcquireRead("facade")
       \/ fpc \in FWritePcs /\ AcquireWrite("facade")
    /\ UNCHANGED <<engineVars, position, chanVars, monVars, busVars, playerVars, posted>>

\* A call begins: the caller holds &mut self, so one call runs at a time.
BeginCall ==
    /\ fpc = "idle" /\ calls + posted < MaxInputs
    /\ calls' = calls + 1

\* set_source, up to the read of "current-uri"
SetSourceBegin(loc) ==
    /\ BeginCall
    /\ Len(stat_ch) + 2 < MaxPhaseQueue
    /\ stat_ch' = Append(stat_ch, Switching)
    /\ fpc' = "ss_uri" /\ floc' = loc
    /\ afterStop' = FALSE
    /\ UNCHANGED <<furi, ftarget, fctx, fstate, seeked, fields, playback_ch>>
    /\ UNCHANGED <<engineVars, lockVars, position, monVars, busVars, posted>>

SetSourceUri ==
    /\ fpc = "ss_uri" /\ "facade" \in rlock
    /\ Release("facade")
    /\ furi' = pcur
    /\ source' = Some(floc)
    /\ fpc' = IF floc.kind = "Cue" THEN "cue_seturi" ELSE "pl_seturi"
    /\ UNCHANGED <<floc, ftarget, fctx, fstate, seeked, start, end, volume, calls, afterStop>>
    /\ UNCHANGED <<engineVars, position, chanVars, monVars, busVars, posted>>

\* (mutant: a cue branch that forgets to announce Playing)
CueSetUriSilent ==
    /\ fpc = "cue_seturi" /\ "facade" \in wlock
    /\ SetUri(floc.res) /\ Release("facade")
    /\ start' = Some(floc.start) /\ end' = Some(floc.end)
    /\ Goto("cue_play")
    /\ UNCHANGED <<source, volume, calls, afterStop, chanVars>>
    /\ UNCHANGED <<position, monVars, busVars, posted>>

\* URI::Cue branch: the uri, the window, the Playing announcement
CueSetUri ==
    /\ fpc = "cue_seturi" /\ "facade" \in wlock
    /\ SetUri(floc.res) /\ Release("facade")
    /\ start' = Some(floc.start) /\ end' = Some(floc.end)
    /\ stat_ch' = Append(stat_ch, Playing(floc.start, floc.end))
    /\ Goto("cue_play")
    /\ UNCHANGED <<source, volume, calls, afterStop, playback_ch>>
    /\ UNCHANGED <<position, monVars, busVars, posted>>

CuePlay ==
    /\ fpc = "cue_play" /\ "facade" \in wlock
    /\ Release("facade")
    /\ IF SetStateOk("Playing")
         THEN SetState("Playing") /\ Goto("cue_loop")
         ELSE UNCHANGED engineVars /\ Panic
    /\ UNCHANGED <<fields, calls, afterStop>>
    /\ UNCHANGED <<position, chanVars, monVars, busVars, posted>>

\* Ord::clamp asserts min <= max.
Clamp(x, lo, hi) == Max(lo, Min(x, hi))
ClampedTarget(t) == Clamp(t + Unwrap(start), Unwrap(start), Unwrap(end))
\* ClockTime::from_useconds(clamped_target.num_microseconds())
SeekPosClock(t) == (ClampedTarget(t) \div NsPerUs) * NsPerUs

\* seek_to up to the first lock: the window checks and the clamp
SeekEntry(t, ctx) ==
    IF start = None \/ end = None
      THEN IF ctx = "api" THEN ToIdle ELSE Goto("cue_loop")
      ELSE IF Unwrap(start) > Unwrap(end)
      THEN Panic
      ELSE /\ fpc' = "seek_mute" /\ ftarget' = t /\ fctx' = ctx
           /\ UNCHANGED <<floc, furi, fstate, seeked>>

\* the cue loop's head: the 20 ms have passed (panic), or one more seek_to(start)
CueLoop ==
    /\ fpc = "cue_loop"
    /\ \/ Panic
       \/ SeekEntry(floc.start, "cue")
    /\ UNCHANGED <<fields, calls, afterStop>>
    /\ UNCHANGED <<engineVars, lockVars, position, chanVars, monVars, busVars, posted>>

SeekTo(t) ==
    /\ BeginCall
    /\ SeekEntry(t, "api")
    /\ UNCHANGED <<fields, afterStop>>
    /\ UNCHANGED <<engineVars, lockVars, position, chanVars, monVars, busVars, posted>>

SeekBy(d) ==
    /\ BeginCall
    /\ IF position = None
         THEN ToIdle
         ELSE SeekEntry(Unwrap(position) + d, "api")
    /\ UNCHANGED <<fields, afterStop>>
    /\ UNCHANGED <<engineVars, lockVars, position, chanVars, monVars, busVars, posted>>

SeekMute ==
    /\ fpc = "seek_mute" /\ "facade" \in wlock
    /\ SetVolumeProp(0) /\ Release("facade")
    /\ Goto("seek_do")
    /\ UNCHANGED <<fields, calls, afterStop>>
    /\ UNCHANGED <<position, chanVars, monVars, busVars, posted>>

SeekDo ==
    /\ fpc = "seek_do" /\ "facade" \in wlock
    /\ Release("facade")
    /\ IF SeekOk
         THEN /\ SeekSimple(SeekPosClock(ftarget))
              /\ seeked' = Some(SeekPosClock(ftarget))
              /\ fpc' = "seek_unmute"
              /\ UNCHANGED <<floc, furi, ftarget, fctx, fstate>>
         ELSE /\ UNCHANGED engineVars
              /\ IF fctx = "api" THEN ToIdle ELSE Goto("cue_loop")
    /\ UNCHANGED <<fields, calls, afterStop>>
    /\ UNCHANGED <<position, chanVars, monVars, busVars, posted>>

SeekUnmute ==
    /\ fpc = "seek_unmute" /\ "facade" \in wlock
    /\ SetVolumeProp(volume) /\ Release("facade")
    /\ ToIdle
    /\ UNCHANGED <<fields, calls, afterStop>>
    /\ UNCHANGED <<position, chanVars, monVars, busVars, posted>>

\* the other URI variants
PlSetUri ==
    /\ fpc = "pl_seturi" /\ "facade" \in wlock
    /\ SetUri(floc.res) /\ Release("facade")
    /\ Goto("pl_play")
    /\ UNCHANGED <<fields, calls, afterStop>>
    /\ UNCHANGED <<position, chanVars, monVars, busVars, posted>>

PlPlay ==
    /\ fpc = "pl_play" /\ "facade" \in wlock
    /\ Release("facade")
    /\ IF SetStateOk("Playing")
         THEN SetState("Playing") /\ Goto("pl_wait")
         ELSE UNCHANGED engineVars /\ Panic
    /\ UNCHANGED <<fields, calls, afterStop>>
    /\ UNCHANGED <<position, chanVars, monVars, busVars, posted>>

\* (mutant: the read guard kept across the readiness wait)
PlWaitHolding ==
    /\ fpc = "pl_wait" /\ "facade" \in rlock
    /\ UNCHANGED lockVars
    /\ Goto(IF furi = pcur THEN "pl_wait" ELSE "pl_pos")
    /\ UNCHANGED <<fields, calls, afterStop>>
    /\ UNCHANGED <<engineVars, position, chanVars, monVars, busVars, posted>>

\* the wait's first operand: the captured uri against "current-uri"
PlWait ==
    /\ fpc = "pl_wait" /\ "facade" \in rlock
    /\ Release("facade")
    /\ Goto(IF furi = pcur THEN "pl_wait" ELSE "pl_pos")
    /\ UNCHANGED <<fields, calls, afterStop>>
    /\ UNCHANGED <<engineVars, position, chanVars, monVars, busVars, posted>>

\* the wait's second operand: self.position().is_none()
PlPos ==
    /\ fpc = "pl_pos"
    /\ IF position = None
         THEN Goto("pl_wait") /\ start' = start
         ELSE Goto("pl_dur") /\ start' = Some(0)
    /\ UNCHANGED <<source, end, volume, calls, afterStop>>
    /\ UNCHANGED <<engineVars, lockVars, position, chanVars, monVars, busVars, posted>>

PlDur ==
    /\ fpc = "pl_dur" /\ "facade" \in rlock
    /\ Release("facade")
    /\ end' = RawDuration
    /\ IF RawDuration = None
         THEN Panic /\ stat_ch' = stat_ch
         ELSE /\ stat_ch' = Append(stat_ch, Playing(Unwrap(start), Unwrap(RawDuration)))
              /\ ToIdle
    /\ UNCHANGED <<source, start, volume, calls, afterStop, playback_ch>>
    /\ UNCHANGED <<engineVars, position, monVars, busVars, posted>>

\* play / resume / pause / ready
StateCall(s) ==
    /\ BeginCall
    /\ fpc' = "st_set" /\ fstate' = s
    /\ UNCHANGED <<floc, furi, ftarget, fctx, seeked, fields, afterStop>>
    /\ UNCHANGED <<engineVars, lockVars, position, chanVars, monVars, busVars, posted>>

StSet ==
    /\ fpc = "st_set" /\ "facade" \in wlock
    /\ Release("facade")
    /\ IF SetStateOk(fstate) THEN SetState(fstate) ELSE UNCHANGED engineVars
    /\ ToIdle
    /\ UNCHANGED <<fields, calls, afterStop>>
    /\ UNCHANGED <<position, chanVars, monVars, busVars, posted>>

\* stop() is not counted in calls: it only ever leads back to a stopped
\* pipeline, so repeating it adds no new runs beyond the ones it ends in.
Stop ==
    /\ fpc = "idle"
    /\ Len(stat_ch) + 1 < MaxPhaseQueue
    /\ Goto("stop_pause")
    /\ UNCHANGED <<fields, calls, afterStop>>
    /\ UNCHANGED <<engineVars, lockVars, position, chanVars, monVars, busVars, posted>>

StopPause ==
    /\ fpc = "stop_pause" /\ "facade" \in wlock
    /\ Release("facade")
    /\ IF SetStateOk("Paused")
         THEN SetState("Paused") /\ Goto("stop_ready")
         ELSE UNCHANGED engineVars /\ ToIdle
    /\ UNCHANGED <<fields, calls, afterStop>>
    /\ UNCHANGED <<position, chanVars, monVars, busVars, posted>>

StopReady ==
    /\ fpc = "stop_ready" /\ "facade" \in wlock
    /\ SetState("Ready") /\ Release("facade")
    /\ stat_ch' = Append(stat_ch, Idle)
    /\ Goto("stop_clear")
    /\ UNCHANGED <<fields, calls, afterStop, playback_ch>>
    /\ UNCHANGED <<position, monVars, busVars, posted>>

\* (mutant: stop() that leaves the position cell alone)
StopClearKeepPosition == position' = position
\* (mutant: stop() that resets the position cell to zero)
StopClearToZero == position' = Some(0)
StopClearPosition == position' = None
StopClear ==
    /\ fpc = "stop_clear"
    /\ StopClearPosition
    /\ start' = None /\ end' = None
    /\ afterStop' = TRUE
    /\ ToIdle
    /\ UNCHANGED <<source, volume, calls>>
    /\ UNCHANGED <<engineVars, lockVars, chanVars, monVars, busVars, posted>>

ClampVolume(v) == Max(0, Min(v, 10))
SetVolume(v) ==
    /\ BeginCall
    /\ volume' = ClampVolume(v)
    /\ Goto("vol_set")
    /\ UNCHANGED <<source, start, end, afterStop>>
    /\ UNCHANGED <<engineVars, lockVars, position, chanVars, monVars, busVars, posted>>

VolSet ==
    /\ fpc = "vol_set" /\ "facade" \in wlock
    /\ SetVolumeProp(volume) /\ Release("facade")
    /\ ToIdle
    /\ UNCHANGED <<fields, calls, afterStop>>
    /\ UNCHANGED <<position, chanVars, monVars, busVars, posted>>

\* impl Drop for Player
DropBegin ==
    /\ fpc = "idle"
    /\ Goto("drop_null")
    /\ UNCHANGED <<fields, calls, afterStop>>
    /\ UNCHANGED <<engineVars, lockVars, position, chanVars, monVars, busVars, posted>>

DropNull ==
    /\ fpc \in {"drop_null", "panic_drop"} /\ "facade" \in wlock
    /\ SetState("Null") /\ Release("facade")
    /\ stat_ch' = Append(stat_ch, Finished)
    /\ fpc' = IF fpc = "drop_null" THEN "dead" ELSE "aborted"
    /\ UNCHANGED <<locals, fields, calls, afterStop, playback_ch>>
    /\ UNCHANGED <<position, monVars, busVars, posted>>

\* position() and duration(), as the caller would get them now
PositionResult == position
DurationResult ==
    IF end # None /\ start # None
      THEN Some(Unwrap(end) - Unwrap(start))
      ELSE RawDuration

Engine == EngineLoad \/ EngineAdvance \/ \E m \in BusMessages : EnginePost(m)
Monitor == MonRecv \/ MonAcquire \/ MonQuery \/ MonSetReady \/ MonWrite \/ MonFinish
Bus == BusDispatch \/ BusAcquire \/ BusSetReady \/ BusSetPlaying
Facade ==
    \/ FacadeAcquire
    \/ \E loc \in Locators : SetSourceBegin(loc)
    \/ SetSourceUri \/ CueSetUri \/ CuePlay \/ CueLoop
    \/ \E t \in SeekTargets : SeekTo(t)
    \/ \E d \in SeekAmounts : SeekBy(d)
    \/ SeekMute \/ SeekDo \/ SeekUnmute
    \/ PlSetUri \/ PlPlay \/ PlWait \/ PlPos \/ PlDur
    \/ \E s \in {"Playing", "Paused", "Ready"} : StateCall(s)
    \/ StSet
    \/ Stop \/ StopPause \/ StopReady \/ StopClear
    \/ \E v \in Volumes : SetVolume(v)
    \/ VolSet
    \/ DropBegin \/ DropNull

Next == Engine \/ Monitor \/ Bus \/ Facade \/ CallerRecv

Spec == Init /\ [][Next]_vars

\* The monitor and the bus watch are threads of their own and the caller keeps
\* draining message_rx: each keeps running while it can take a step.
LiveSpec ==
    Init /\ [][Next]_vars /\ WF_vars(Monitor) /\ WF_vars(Bus) /\ WF_vars(CallerRecv)

\* The caller's thread and the pipeline's loading keep running as well.
FairSpec ==
    /\ Init /\ [][Next]_vars
    /\ WF_vars(Monitor) /\ WF_vars(Bus) /\ WF_vars(CallerRecv)
    /\ WF_vars(Facade) /\ WF_vars(EngineLoad)

\* ========================================================== properties
Dropped == fpc \in {"dead", "aborted"}
PhasesInFlight == { stat_ch[i] : i \in 1..Len(stat_ch) } \cup {stats}
LastEvent == playback_ch[Len(playback_ch)]
Window == FinishMs * NsPerMs

\* C1: seek_to(t) hands seek_simple the position clamp(t + start, start, end),
\* which lies within [start, end].
C1_SeekClampLaw ==
    fpc = "seek_unmute" =>
        /\ seeked = Some(Clamp(ftarget + Unwrap(start), Unwrap(start), Unwrap(end)))
        /\ Unwrap(start) <= Unwrap(seeked) /\ Unwrap(seeked) <= Unwrap(end)

C3_RebasedInWindow ==
    (mpc = "write" /\ stats.tag = "Playing" /\ stats.start <= stats.end /\ pos_temp # None)
        => (0 <= Unwrap(pos_temp) /\ Unwrap(pos_temp) <= stats.end - stats.start)

C6_FinishedOnceThenExit ==
    /\ [](Cardinality({ i \in 1..Len(stat_ch) : stat_ch[i] = Finished })
            + (IF stats = Finished THEN 1 ELSE 0) <= 1)
    /\ [](Finished \in PhasesInFlight => Dropped)
    /\ [](mpc = "done" => (stats = Finished /\ position = None))
    /\ (Dropped ~> mpc = "done")
C6_Witness ==
    /\ mpc = "done" /\ fpc = "dead" /\ source # None /\ afterStop
    /\ position = None

\* C7: once drop() has run to its end the pipeline is, and stays, in state Null.
C7_StaysNull == fpc = "dead" => pstate = "Null"

\* C8: for a window longer than 250 ms, no Eos is sent for a track without an
\* AboutToFinish sent for it before.
C8_AboutToFinishFirst ==
    (stats.tag = "Playing" /\ stats.end - stats.start > Window /\ eosSince >= 1)
        => atfSince >= 1

\* C9: every Playing{start,end} announced on the phase channel or held by the
\* monitor has start <= end.
C9_StartLeEnd ==
    \A ph \in PhasesInFlight : ph.tag = "Playing" => ph.start <= ph.end

\* C10: at most one write guard of the pipeline lock is held, and none while a
\* read guard is held; read guards may be held together; and every change an
\* actor makes to the pipeline (state, uri, volume, seek) is made under the
\* write guard.
C10_MutualExclusion ==
    /\ [](Cardinality(wlock) <= 1 /\ (wlock # {} => rlock = {}))
    /\ [][ /\ (pstate' # pstate \/ puri' # puri \/ pvol' # pvol) => wlock # {}
           /\ (seeked' # seeked /\ seeked' # None) => "facade" \in wlock
         ]_vars
C10_Witness == rlock = {"facade", "monitor"} /\ bpc = "err_ready"

\* C11, strict form: every phase the facade sends follows the one sent before
\* it (Idle at first) by Idle->Switching, Switching->Playing,
\* Playing->Switching, Playing->Idle or any->Finished, and nothing follows
\* Finished.
LastSent == IF stat_ch # <<>> THEN stat_ch[Len(stat_ch)] ELSE stats
PhaseSteps ==
    { <<"Idle", "Switching">>, <<"Switching", "Playing">>,
      <<"Playing", "Switching">>, <<"Playing", "Idle">>,
      <<"Idle", "Finished">>, <<"Switching", "Finished">>,
      <<"Playing", "Finished">> }
C11_PhaseMachine ==
    [][ Len(stat_ch') > Len(stat_ch)
            => <<LastSent.tag, LastSent'.tag>> \in PhaseSteps ]_vars

\* C11, with the repeated stop: as above, and stop() called while the phase is
\* already Idle announces Idle again (Idle->Idle).
C11_PhaseMachineIdleAgain ==
    [][ Len(stat_ch') > Len(stat_ch)
            => <<LastSent.tag, LastSent'.tag>> \in PhaseSteps \cup {<<"Idle", "Idle">>}
      ]_vars
C11_Witness ==
    /\ fpc = "dead" /\ Len(stat_ch) = 3
    /\ stat_ch[1] = Idle /\ stat_ch[2] = Idle /\ stat_ch[3] = Finished

\* C12: the cue branch of set_source returns normally only after a seek to
\* the cue start (to the microsecond) has succeeded.
C12_CueSeekToStart ==
    (fpc = "seek_unmute" /\ fctx = "cue")
        => /\ seeked # None
           /\ Unwrap(seeked) \div NsPerUs = floc.start \div NsPerUs

\* C13: when the plain branch of set_source leaves its readiness wait it
\* returns with start = 0 and end = the raw duration D, duration() = D, and
\* Playing{0, D} announced last.
C13_PlainWindow ==
    [][ (fpc = "pl_dur" /\ fpc' # "pl_dur")
            => /\ fpc' = "idle"
               /\ start' = Some(0) /\ end' = Some(Dur(pcur))
               /\ DurationResult' = Some(Dur(pcur))
               /\ LastSent' = Playing(0, Dur(pcur))
      ]_vars

\* C14, strict form: only a step of the monitor changes the position cell.
MonitorWrites == mpc \in {"write", "finish"} /\ mpc' # mpc
C14_OnlyMonitorWrites == [][ position' # position => MonitorWrites ]_vars

\* C14, with stop: the position cell is changed only by the monitor and by
\* stop(), which clears it to None; no other facade operation and no bus
\* listener action changes it.
C14_MonitorOrStopWrites ==
    [][ position' # position
            => \/ MonitorWrites
               \/ fpc = "stop_clear" /\ fpc' = "idle" /\ position' = None
      ]_vars
C14_Witness == fpc = "stop_clear" /\ position # None /\ mpc = "recv"

\* C15: the backlog of undelivered lifecycle events is bounded: for tracks
\* with a well-formed window it stays below the largest backlog explored,
\* further events being dropped.
WindowOk == \A l \in source : l.start <= l.end
C15_BoundedBacklog == WindowOk => Len(playback_ch) < MaxEvents

\* C16: whenever seek_to has returned, the pipeline volume is the stored one.
C16_VolumeRestored == fpc = "idle" => pvol = volume

\* C17: for tracks with a well-formed window, between two phases adopted by
\* the monitor at most one AboutToFinish is sent.
C17_AtMostOneAboutToFinish == WindowOk => atfSince <= 1

\* C18: a monitor iteration sends Eos iff its phase is Playing{start,end} and
\* the raw position it read is >= end, AboutToFinish iff the phase is Playing
\* and end - 250 ms <= raw < end, and nothing otherwise; no other step sends
\* a lifecycle event.
RawSeen == stats.tag = "Playing" /\ ppos # None
C18_RawBoundaries ==
    [][ IF mpc = "query" /\ mpc' # "query"
          THEN /\ (playback_ch' = Append(playback_ch, "Eos"))
                    <=> (RawSeen /\ Unwrap(ppos) >= stats.end)
               /\ (playback_ch' = Append(playback_ch, "AboutToFinish"))
                    <=> (RawSeen /\ Unwrap(ppos) >= stats.end - Window
                                 /\ Unwrap(ppos) < stats.end)
               /\ \/ playback_ch' = playback_ch
                  \/ playback_ch' = Append(playback_ch, "Eos")
                  \/ playback_ch' = Append(playback_ch, "AboutToFinish")
          ELSE Len(playback_ch') <= Len(playback_ch)
      ]_vars
C18_Witness ==
    /\ mpc = "write" /\ stats.tag = "Playing"
    /\ stats.start > 0 /\ stats.start <= stats.end
    /\ playback_ch # <<>> /\ LastEvent = "AboutToFinish" /\ atfSince = 1
    /\ pos_temp # None /\ Unwrap(pos_temp) < stats.end - Window

\* C19: the fault handler sets the pipeline to Ready and then to Playing, and
\* when it completes the pipeline is Playing whatever its state was before;
\* StreamStart and Eos messages change nothing; the bus watch sends no
\* lifecycle event.
C19_FaultRecovery ==
    [][ /\ (bpc = "err_ready" /\ bpc' # bpc)
            => (pstate' = "Ready" /\ bpc' = "err_play")
        /\ (bpc = "err_play" /\ bpc' # bpc)
            => (pstate' = "Playing" /\ bpc' = "idle")
        /\ (bpc = "idle" /\ busq # <<>> /\ busq' = Tail(busq))
            => /\ bpc' = (IF Head(busq) = "Error" THEN "err_ready" ELSE "idle")
               /\ UNCHANGED <<pstate, ppos, puri, pcur, pload, pvol>>
        /\ (bpc' # bpc \/ Len(busq') < Len(busq)) => UNCHANGED <<chanVars, position>>
      ]_vars
C19_Witness ==
    /\ afterStop /\ fpc = "idle" /\ posted = 1 /\ busq = <<>>
    /\ bpc = "idle" /\ pstate = "Playing"

\* C20: a guard of the pipeline lock is held only for the one operation it
\* was taken for: none is held in the cue loop's or the readiness wait's
\* sleep, in the monitor's receive, or while the position cell is accessed.
MReadPcs == {"query"}
MWritePcs == {"set_ready"}
BWritePcs == {"err_ready", "err_play"}
Actors == {"facade", "monitor", "bus"}
Pc(a) == IF a = "facade" THEN fpc ELSE IF a = "monitor" THEN mpc ELSE bpc
Guards == rlock \cup wlock
GuardDropped == (Monitor \/ Bus \/ Facade) /\ Guards' # Guards /\ Guards' \subseteq Guards
C20_NoLockAcrossWait ==
    /\ [](/\ "facade" \in rlock => fpc \in FReadPcs
          /\ "facade" \in wlock => fpc \in FWritePcs
          /\ "monitor" \in rlock => mpc \in MReadPcs
          /\ "monitor" \in wlock => mpc \in MWritePcs
          /\ "bus" \notin rlock
          /\ "bus" \in wlock => bpc \in BWritePcs
          /\ Guards \subseteq Actors
          /\ Guards # {} => ENABLED GuardDropped)
    /\ [][ /\ \A a \in Actors : (a \in Guards /\ a \in Guards') => Pc(a)' = Pc(a)
           /\ position' # position
                => \E a \in {"facade", "monitor"} : Pc(a)' # Pc(a) /\ a \notin Guards
         ]_vars
C20_Witness ==
    /\ fpc = "pl_pos" /\ mpc = "recv" /\ bpc = "err_play" /\ "bus" \in wlock

\* C21: while set_source on a well-formed cue locator is between announcing
\* Playing{start,end} and the success of its first seek, the monitor, once it
\* has adopted that phase, does not send Eos (and go on to force Ready) on a
\* raw position the pipeline still reports from before the new uri was loaded.
InCueSwitch ==
    /\ fpc \in {"cue_play", "cue_loop", "seek_mute", "seek_do"}
    /\ floc.kind = "Cue" /\ floc.start <= floc.end
LeftOver == pload /\ ppos # None
C21_NoSpuriousEos ==
    [][ (mpc = "query" /\ mpc' = "set_ready")
            => ~(/\ InCueSwitch /\ LeftOver
                 /\ stat_ch = <<>> /\ stats = Playing(floc.start, floc.end))
      ]_vars

\* C22: once the pipeline plays the resource submitted to set_source on a
\* plain locator, the readiness wait is eventually left, also when that
\* resource is the one the pipeline was playing before the call.
InReadinessWait == fpc \in {"pl_wait", "pl_pos"}
PlayingSubmitted ==
    /\ InReadinessWait /\ floc.kind = "Plain"
    /\ pstate = "Playing" /\ pcur = floc.res /\ ~pload /\ ppos # None
C22_WaitIsLeft == (PlayingSubmitted /\ furi = floc.res) ~> ~InReadinessWait

=============================================================================
